---- MODULE Spec2Model ----
(***************************************************************************)
(* Product service (product-service/main.go), order service and HTTP       *)
(* gateway of the order management system, over the MongoDB collections    *)
(* "products" and "orders".  Every gRPC handler is split at its store      *)
(* calls: what happens between two store calls of one handler is local to  *)
(* the goroutine serving the request, a store call is atomic on one        *)
(* document, and any number of handlers run concurrently.                  *)
(***************************************************************************)
EXTENDS Integers, Sequences, FiniteSets, TLC

\* ------------------------------------------------------------ bounds
MaxProducts == 1      \* documents ever inserted
NumCallers == 2       \* requests served concurrently
MaxCalls == 3         \* UpdateStock and UpdateProduct requests that reach the store
MaxFaults == 1        \* store calls that end with a driver error
MaxTime == 1          \* the clock's last reading, in store ticks (milliseconds)
MaxOrders == 1        \* order documents ever inserted
MaxListed == 12       \* documents in the collection a list request finds at its start
MaxLists == 1         \* list requests in flight at once
TicksPerSecond == 2

Callers == 1..NumCallers

\* ------------------------------------------------------------ values
NoProduct == [name |-> "", description |-> "", price |-> 0, stock_quantity |-> 0,
              category |-> "", created_at |-> 0, updated_at |-> 0]

NoOrder == [user_id |-> "", items |-> <<>>, status |-> "", total_amount |-> 0,
            created_at |-> 0, updated_at |-> 0]

\* Requests a client sends.  price stands for the float64 field, stock and
\* quantity_change for the int32 fields of the messages.
CreateReqs ==
  { [name |-> "a", description |-> "d", price |-> 2, stock_quantity |-> 1, category |-> "c"],
    [name |-> "b", description |-> "", price |-> 0, stock_quantity |-> 0, category |-> ""],
    [name |-> "", description |-> "d", price |-> 2, stock_quantity |-> 1, category |-> "c"],
    [name |-> "a", description |-> "d", price |-> -1, stock_quantity |-> 1, category |-> "c"],
    [name |-> "a", description |-> "d", price |-> 2, stock_quantity |-> -1, category |-> "c"] }

UpdateReqs ==
  { [name |-> "b", description |-> "e", price |-> 3, category |-> "k"],
    [name |-> "", description |-> "", price |-> -1, category |-> ""] }

QuantityChanges == {-2, -1, 1}

\* The hexadecimal form of the n-th ObjectID the store generates.
HexOf ==
  [n \in 1..16 |-> <<"0a", "0b", "0c", "0d", "0e", "0f", "10", "11",
                     "12", "13", "14", "15", "16", "17", "18", "19">>[n]]

\* The ids a client sends: none, no ObjectID, those stored and one more.
IdInputs == {"", "zz"} \cup {HexOf[n] : n \in 1..(MaxProducts + 1)}

\* id.Hex()
Hex(n) == HexOf[n]

\* primitive.ObjectIDFromHex: an error for a string that is no ObjectID.
ObjectIDFromHex(s) ==
  IF \E n \in DOMAIN HexOf : HexOf[n] = s
    THEN [err |-> FALSE, id |-> CHOOSE n \in DOMAIN HexOf : HexOf[n] = s]
    ELSE [err |-> TRUE, id |-> 0]

\* Time.Format(time.RFC3339): whole seconds.
FormatRFC3339(t) == t \div TicksPerSecond

\* ------------------------------------------------------------ state
VARIABLES
  products,   \* the collection: products[n] is the document with the n-th ObjectID
  now,        \* the clock time.Now() reads
  pc,         \* pc[c]: where the handler serving caller c stands
  arg,        \* arg[c]: the locals of that handler
  lastCall,   \* the response the step just taken returned to its client, if any
  ledger,     \* history, per product: what the UpdateStock calls on it asked and got
  started,    \* UpdateStock and UpdateProduct requests that reached the store so far
  faults,     \* store calls that failed so far
  orders      \* the collection "orders": orders[n] is the document with the n-th ObjectID

vars == <<products, now, pc, arg, lastCall, ledger, started, faults, orders>>

\* What a client sends besides a product: the fields of the order requests and of
\* the list requests, and the quantity of the body of PUT /products/:id/stock.
NoAsk == [user_id |-> "", items |-> <<>>, status |-> "", category |-> "", page |-> 0,
          limit |-> 0, quantity |-> 0]

Idle == [id |-> 0, delta |-> 0, upd |-> NoProduct, ts |-> 0, solo |-> FALSE, pre |-> NoProduct,
         status |-> "", doc |-> NoOrder, ask |-> NoAsk, page |-> 0, limit |-> 0, skip |-> 0, category |-> "", total |-> 0]

\* op, code, id and ret are the response; the other fields are history of the
\* request it answers: req, ask and delta what was asked, storeErr whether a store
\* call of the handler failed, solo and pre as in the handler's locals.
NoCall == [op |-> "none", code |-> "OK", id |-> "", ret |-> NoProduct,
           req |-> NoProduct, delta |-> 0, storeErr |-> FALSE, solo |-> FALSE,
           pre |-> NoProduct, ask |-> NoAsk]

\* History of the UpdateStock calls on one product: init the stock it was created
\* with, calls how many incremented it, reqSum the sum of their changes, okSum the
\* sum over those answered OK, rejected whether one was answered FailedPrecondition,
\* overlapped whether one incremented while another was in flight, dipped whether
\* init plus the changes so far ever was negative.
NewLedger(stock) ==
  [init |-> stock, calls |-> 0, reqSum |-> 0, okSum |-> 0, rejected |-> FALSE,
   overlapped |-> FALSE, dipped |-> FALSE]

\* ToProto that leaves the description out.
ToProtoNoDescription(idstr, doc) ==
  [id |-> idstr, name |-> doc.name, description |-> "", price |-> doc.price,
   stock_quantity |-> doc.stock_quantity, category |-> doc.category,
   created_at |-> FormatRFC3339(doc.created_at), updated_at |-> FormatRFC3339(doc.updated_at)]

\* The pb.Product a handler builds from a document.
ToProto(idstr, doc) ==
  [id |-> idstr, name |-> doc.name, description |-> doc.description, price |-> doc.price,
   stock_quantity |-> doc.stock_quantity, category |-> doc.category,
   created_at |-> FormatRFC3339(doc.created_at), updated_at |-> FormatRFC3339(doc.updated_at)]

Reply(op, code, idstr, ret) ==
  [NoCall EXCEPT !.op = op, !.code = code, !.id = idstr, !.ret = ret]

StoreError(reply) == [reply EXCEPT !.storeErr = TRUE]

Init ==
  /\ products = <<>>
  /\ now = 0
  /\ pc = [c \in Callers |-> "idle"]
  /\ arg = [c \in Callers |-> Idle]
  /\ lastCall = NoCall
  /\ ledger = <<>>
  /\ started = 0
  /\ faults = 0
  /\ orders = <<>>

\* The clock advances.
Tick ==
  /\ now < MaxTime
  /\ now' = now + 1
  /\ lastCall' = NoCall
  /\ UNCHANGED <<products, pc, arg, ledger, started, faults, orders>>

\* A store call either succeeds or ends with a driver error.
StoreOutcomes == IF faults < MaxFaults THEN {"ok", "error"} ELSE {"ok"}

\* ------------------------------------------------------------ CreateProduct
\* CreateValidation without the check of the stock quantity.
CreateValidationNoStockCheck(req) ==
  IF req.name = "" THEN "InvalidArgument"
  ELSE IF req.price < 0 THEN "InvalidArgument"
  ELSE "OK"

CreateValidation(req) ==
  IF req.name = "" THEN "InvalidArgument"
  ELSE IF req.price < 0 THEN "InvalidArgument"
  ELSE IF req.stock_quantity < 0 THEN "InvalidArgument"
  ELSE "OK"

NewDocument(req, t1, t2) ==
  [name |-> req.name, description |-> req.description, price |-> req.price,
   stock_quantity |-> req.stock_quantity, category |-> req.category,
   created_at |-> t1, updated_at |-> t2]

\* The pb.Product CreateProduct returns: the request's fields, the new id and the
\* document's timestamps.
CreateResponse(idstr, req, doc) ==
  [id |-> idstr, name |-> req.name, description |-> req.description, price |-> req.price,
   stock_quantity |-> req.stock_quantity, category |-> req.category,
   created_at |-> FormatRFC3339(doc.created_at), updated_at |-> FormatRFC3339(doc.updated_at)]

\* History: the handlers of the callers other than c no longer run alone (solo),
\* and the document they found when they started (pre) is forgotten.
Disturb(a, c) ==
  [d \in Callers |-> IF d = c THEN a[d] ELSE [a[d] EXCEPT !.solo = FALSE, !.pre = NoProduct]]

\* The validation, then InsertOne; both readings of the clock fall in one tick.
\* MaxProducts bounds the requests served: none once the collection is full.
CreateProduct(req) ==
  /\ Len(products) < MaxProducts
  /\ \E out \in StoreOutcomes :
       IF CreateValidation(req) # "OK"
         THEN /\ out = "ok"
              /\ lastCall' = [Reply("CreateProduct", CreateValidation(req), "", NoProduct)
                                EXCEPT !.req = NewDocument(req, 0, 0)]
              /\ UNCHANGED <<products, arg, ledger, faults>>
       ELSE IF out = "error"
         THEN /\ lastCall' = [StoreError(Reply("CreateProduct", "Internal", "", NoProduct))
                                EXCEPT !.req = NewDocument(req, 0, 0)]
              /\ faults' = faults + 1
              /\ UNCHANGED <<products, arg, ledger>>
       ELSE LET doc == NewDocument(req, now, now)
                id == Len(products) + 1
            IN /\ products' = Append(products, doc)
               /\ ledger' = Append(ledger, NewLedger(doc.stock_quantity))
               /\ lastCall' = [Reply("CreateProduct", "OK", Hex(id),
                                     CreateResponse(Hex(id), req, doc))
                                 EXCEPT !.req = NewDocument(req, 0, 0)]
               /\ arg' = Disturb(arg, 0)
               /\ UNCHANGED faults
  /\ UNCHANGED <<now, pc, started, orders>>

\* ------------------------------------------------------------ GetProduct
\* FindOne by _id: the document, or none.
FindOne(coll, id) == IF id \in DOMAIN coll THEN <<coll[id]>> ELSE <<>>

\* IdValidation without the parsing of the id.
IdValidationNotParsed(idstr) == IF idstr = "" THEN "InvalidArgument" ELSE "OK"

\* The id checks every handler starts with.
IdValidation(idstr) ==
  IF idstr = "" THEN "InvalidArgument"
  ELSE IF ObjectIDFromHex(idstr).err THEN "InvalidArgument"
  ELSE "OK"

GetProductResponse(coll, idstr, out) ==
  IF IdValidation(idstr) # "OK" THEN Reply("GetProduct", IdValidation(idstr), idstr, NoProduct)
  ELSE IF out = "error" THEN StoreError(Reply("GetProduct", "Internal", idstr, NoProduct))
  ELSE IF FindOne(coll, ObjectIDFromHex(idstr).id) = <<>>
    THEN Reply("GetProduct", "NotFound", idstr, NoProduct)
  ELSE Reply("GetProduct", "OK", idstr,
             ToProto(idstr, FindOne(coll, ObjectIDFromHex(idstr).id)[1]))

GetProduct(idstr) ==
  /\ \E out \in StoreOutcomes :
       /\ (out = "error") => (IdValidation(idstr) = "OK")
       /\ lastCall' = GetProductResponse(products, idstr, out)
       /\ faults' = IF out = "error" THEN faults + 1 ELSE faults
  /\ UNCHANGED <<products, now, pc, arg, ledger, started, orders>>

\* ------------------------------------------------------------ handlers in flight
\* Handlers are interchangeable: a request that reaches the store is served by
\* the first caller that is free.
FreeCaller ==
  IF \E c \in Callers : pc[c] = "idle"
    THEN CHOOSE c \in Callers : pc[c] = "idle" /\ \A d \in Callers : pc[d] = "idle" => c <= d
    ELSE 0

OthersIdle(c) == \A d \in Callers \ {c} : pc[d] = "idle"

\* Caller c's handler goes on to its store call; the handlers already in flight
\* no longer run alone.
Enter(c, label, locals) ==
  /\ c = FreeCaller
  /\ pc' = [pc EXCEPT ![c] = label]
  /\ arg' = [Disturb(arg, c) EXCEPT ![c] =
               IF OthersIdle(c) /\ locals.id \in DOMAIN products
                 THEN [locals EXCEPT !.solo = TRUE, !.pre = products[locals.id]]
                 ELSE locals]

\* Caller c's handler returns.
Return(c, reply) ==
  /\ pc' = [pc EXCEPT ![c] = "idle"]
  /\ arg' = [arg EXCEPT ![c] = Idle]
  /\ lastCall' = [reply EXCEPT !.delta = arg[c].delta, !.solo = arg[c].solo,
                               !.pre = arg[c].pre, !.ask = arg[c].ask,
                               !.req = IF reply.op = "UpdateProduct" THEN arg[c].upd ELSE @]

\* ------------------------------------------------------------ UpdateProduct
\* SetFields that replaces the whole document by the request's fields.
SetFieldsWholeDocument(doc, upd, ts) ==
  [upd EXCEPT !.created_at = doc.created_at, !.updated_at = ts]

\* $set of name, description, price, category and updated_at.
SetFields(doc, upd, ts) ==
  [doc EXCEPT !.name = upd.name, !.description = upd.description, !.price = upd.price,
              !.category = upd.category, !.updated_at = ts]

AsUpdate(req) == [NoProduct EXCEPT !.name = req.name, !.description = req.description,
                                   !.price = req.price, !.category = req.category]

\* A request whose id fails the checks is answered at once.
UpdateProductReject(idstr) ==
  /\ IdValidation(idstr) # "OK"
  /\ lastCall' = Reply("UpdateProduct", IdValidation(idstr), idstr, NoProduct)
  /\ UNCHANGED <<products, now, pc, arg, ledger, started, faults, orders>>

\* After the id checks: the update document with the clock's reading.
UpdateProductBegin(c, idstr, req) ==
  /\ pc[c] = "idle"
  /\ IdValidation(idstr) = "OK"
  /\ started < MaxCalls
  /\ started' = started + 1
  /\ Enter(c, "product_update",
           [Idle EXCEPT !.id = ObjectIDFromHex(idstr).id, !.upd = AsUpdate(req), !.ts = now])
  /\ lastCall' = NoCall
  /\ UNCHANGED <<products, now, ledger, faults, orders>>

\* FindOneAndUpdate with ReturnDocument(After), and the response.
UpdateProductFindOneAndUpdate(c) ==
  /\ pc[c] = "product_update"
  /\ \E out \in StoreOutcomes :
       LET id == arg[c].id IN
       IF out = "error"
         THEN /\ Return(c, StoreError(Reply("UpdateProduct", "Internal", Hex(id), NoProduct)))
              /\ faults' = faults + 1
              /\ UNCHANGED products
       ELSE IF FindOne(products, id) = <<>>
         THEN /\ Return(c, Reply("UpdateProduct", "NotFound", Hex(id), NoProduct))
              /\ UNCHANGED <<products, faults>>
       ELSE LET doc == SetFields(products[id], arg[c].upd, arg[c].ts) IN
            /\ products' = [products EXCEPT ![id] = doc]
            /\ Return(c, Reply("UpdateProduct", "OK", Hex(id), ToProto(Hex(id), doc)))
            /\ UNCHANGED faults
  /\ UNCHANGED <<now, ledger, started, orders>>

\* ------------------------------------------------------------ UpdateStock
\* $inc of stock_quantity.
IncStock(doc, n) == [doc EXCEPT !.stock_quantity = @ + n]

\* $inc of stock_quantity together with $set of updated_at.
IncAndStamp(doc, n, ts) == [IncStock(doc, n) EXCEPT !.updated_at = ts]

\* WentNegative that takes every stock read back for negative.
WentNegativeAlways(doc) == TRUE

\* WentNegative with the comparison off by one.
WentNegativeOrZero(doc) == doc.stock_quantity <= 0

\* "Check if stock went negative"
WentNegative(doc) == doc.stock_quantity < 0

\* RevertChange without the sign change.
RevertChangeSameSign(n) == n

\* RevertChange that reverts nothing.
RevertChangeNone(n) == 0

\* The $inc of the revert: -req.QuantityChange.
RevertChange(n) == -n

UpdateStockInFlight(c) == pc[c] \in {"stock_update", "stock_revert"}

\* A request whose id fails the checks is answered at once.
UpdateStockReject(idstr) ==
  /\ IdValidation(idstr) # "OK"
  /\ lastCall' = Reply("UpdateStock", IdValidation(idstr), idstr, NoProduct)
  /\ UNCHANGED <<products, now, pc, arg, ledger, started, faults, orders>>

\* After the id checks: the update document with the clock's reading.  History:
\* ask is what the client sent to the gateway, if the call came through it.
UpdateStockEnter(c, idstr, n, ask) ==
  /\ pc[c] = "idle"
  /\ IdValidation(idstr) = "OK"
  /\ started < MaxCalls
  /\ started' = started + 1
  /\ Enter(c, "stock_update",
           [Idle EXCEPT !.id = ObjectIDFromHex(idstr).id, !.delta = n, !.ts = now,
                        !.ask = ask])
  /\ lastCall' = NoCall
  /\ UNCHANGED <<products, now, ledger, faults, orders>>

UpdateStockBegin(c, idstr, n) == UpdateStockEnter(c, idstr, n, NoAsk)

\* History: a call on product id has applied its increment.
LedgerApplied(c, id) ==
  [ledger EXCEPT
     ![id].calls = @ + 1,
     ![id].reqSum = @ + arg[c].delta,
     ![id].dipped = @ \/ ledger[id].init + ledger[id].reqSum + arg[c].delta < 0,
     ![id].overlapped = @ \/ \E d \in Callers \ {c} :
                                 UpdateStockInFlight(d) /\ arg[d].id = id]

\* FindOneAndUpdate with ReturnDocument(After); the response unless the stock
\* read back is negative.
UpdateStockFindOneAndUpdate(c) ==
  /\ pc[c] = "stock_update"
  /\ \E out \in StoreOutcomes :
       LET id == arg[c].id IN
       IF out = "error"
         THEN /\ Return(c, StoreError(Reply("UpdateStock", "Internal", Hex(id), NoProduct)))
              /\ faults' = faults + 1
              /\ UNCHANGED <<products, ledger>>
       ELSE IF FindOne(products, id) = <<>>
         THEN /\ Return(c, Reply("UpdateStock", "NotFound", Hex(id), NoProduct))
              /\ UNCHANGED <<products, ledger, faults>>
       ELSE LET doc == IncAndStamp(products[id], arg[c].delta, arg[c].ts) IN
            /\ products' = [products EXCEPT ![id] = doc]
            /\ IF WentNegative(doc)
                 THEN /\ pc' = [pc EXCEPT ![c] = "stock_revert"]
                      /\ ledger' = LedgerApplied(c, id)
                      /\ lastCall' = NoCall
                      /\ UNCHANGED arg
                 ELSE /\ Return(c, Reply("UpdateStock", "OK", Hex(id), ToProto(Hex(id), doc)))
                      /\ ledger' = [LedgerApplied(c, id) EXCEPT
                                      ![id].okSum = @ + arg[c].delta]
            /\ UNCHANGED faults
  /\ UNCHANGED <<now, started, orders>>

\* "Revert the change": UpdateOne, its error dropped, then FailedPrecondition.
UpdateStockRevert(c) ==
  /\ pc[c] = "stock_revert"
  /\ \E out \in StoreOutcomes :
       LET id == arg[c].id IN
       /\ IF out = "error"
            THEN /\ faults' = faults + 1
                 /\ UNCHANGED products
            ELSE /\ products' = [products EXCEPT
                                   ![id] = IncStock(@, RevertChange(arg[c].delta))]
                 /\ UNCHANGED faults
       /\ ledger' = [ledger EXCEPT ![id].rejected = TRUE]
       /\ Return(c, [Reply("UpdateStock", "FailedPrecondition", Hex(id), NoProduct)
                       EXCEPT !.storeErr = (out = "error")])
  /\ UNCHANGED <<now, started, orders>>

\* ------------------------------------------------------------ the service
\* The requests that write to the collection, and the clock.
Next ==
  \/ Tick
  \/ \E req \in CreateReqs : CreateProduct(req)
  \/ \E c \in Callers, idstr \in IdInputs, req \in UpdateReqs : UpdateProductBegin(c, idstr, req)
  \/ \E c \in Callers : UpdateProductFindOneAndUpdate(c)
  \/ \E c \in Callers, idstr \in IdInputs, n \in QuantityChanges : UpdateStockBegin(c, idstr, n)
  \/ \E c \in Callers : UpdateStockFindOneAndUpdate(c)
  \/ \E c \in Callers : UpdateStockRevert(c)

Spec == Init /\ [][Next]_vars

\* Every handler that has reached a store call is run on, and the store answers
\* it: grpc-go serves each request on a goroutine of its own.
Fairness ==
  \A c \in Callers :
    /\ WF_vars(UpdateProductFindOneAndUpdate(c))
    /\ WF_vars(UpdateStockFindOneAndUpdate(c))
    /\ WF_vars(UpdateStockRevert(c))

SpecFair == Spec /\ Fairness

\* The whole service: the reads and the requests answered before any store call too.
NextApi ==
  \/ Next
  \/ \E idstr \in IdInputs : GetProduct(idstr)
  \/ \E idstr \in IdInputs : UpdateProductReject(idstr)
  \/ \E idstr \in IdInputs : UpdateStockReject(idstr)

SpecApi == Init /\ [][NextApi]_vars

\* ------------------------------------------------------------ order service
\* src/unnamed/part_003, over the collection "orders".
\* The items a client orders: quantity stands for the int32 field, price for the
\* float64 field.  No product "zz" can exist, and 3 exceeds every stock.
ItemLists ==
  { <<>>,
    <<[product_id |-> "0a", quantity |-> 2, price |-> 10],
      [product_id |-> "0b", quantity |-> 1, price |-> 5]>>,
    <<[product_id |-> "zz", quantity |-> 3, price |-> 2]>> }

CreateOrderReqs == {[NoAsk EXCEPT !.user_id = u, !.items = its] : u \in {"", "u"}, its \in ItemLists}

Statuses == {"", "shipped", "cancelled"}

\* The hexadecimal form of the n-th ObjectID of the collection "orders".
OrderHexOf == [n \in 1..(MaxOrders + 1) |-> IF n = 1 THEN "1a" ELSE IF n = 2 THEN "1b" ELSE "1c"]
OrderIdInputs == {"", "zz"} \cup {OrderHexOf[n] : n \in DOMAIN OrderHexOf}

OrderHex(n) == OrderHexOf[n]

OrderIDFromHex(s) ==
  IF \E n \in DOMAIN OrderHexOf : OrderHexOf[n] = s
    THEN [err |-> FALSE, id |-> CHOOSE n \in DOMAIN OrderHexOf : OrderHexOf[n] = s]
    ELSE [err |-> TRUE, id |-> 0]

\* TotalAmount that adds the prices up without the quantities.
RECURSIVE TotalAmountOfPrices(_)
TotalAmountOfPrices(items) ==
  IF items = <<>> THEN 0
  ELSE TotalAmountOfPrices(SubSeq(items, 1, Len(items) - 1)) + items[Len(items)].price

\* "Calculate total amount": the loop over req.Items.
RECURSIVE TotalAmount(_)
TotalAmount(items) ==
  IF items = <<>> THEN 0
  ELSE TotalAmount(SubSeq(items, 1, Len(items) - 1))
         + items[Len(items)].quantity * items[Len(items)].price

\* The BSON value the driver writes for an int32 field of a Go struct.
BsonInt32(n) == <<"int32", n>>

\* req.Items as the driver stores them.
MarshalItems(items) ==
  [i \in DOMAIN items |-> [product_id |-> items[i].product_id,
                           quantity |-> BsonInt32(items[i].quantity),
                           price |-> items[i].price]]

NewOrderDocument(req, t1, t2) ==
  [user_id |-> req.user_id, items |-> MarshalItems(req.items), status |-> "pending",
   total_amount |-> TotalAmount(req.items), created_at |-> t1, updated_at |-> t2]

\* CreateOrderValidation without the check of the items.
CreateOrderValidationNoItemsCheck(req) ==
  IF req.user_id = "" THEN "InvalidArgument" ELSE "OK"

CreateOrderValidation(req) ==
  IF req.user_id = "" THEN "InvalidArgument"
  ELSE IF Len(req.items) = 0 THEN "InvalidArgument"
  ELSE "OK"

\* The pb.Order CreateOrder returns: the request's fields, the new id, the total
\* and the document's timestamps.
CreateOrderResponse(idstr, req, doc) ==
  [id |-> idstr, user_id |-> req.user_id, items |-> req.items, status |-> "pending",
   total_amount |-> doc.total_amount, created_at |-> FormatRFC3339(doc.created_at),
   updated_at |-> FormatRFC3339(doc.updated_at)]

OrderReply(op, code, idstr, ret, ask) == [Reply(op, code, idstr, ret) EXCEPT !.ask = ask]

\* The validation, then InsertOne into "orders"; both readings of the clock fall
\* in one tick.  MaxOrders bounds the requests served.
InsertOrder(req) ==
  /\ Len(orders) < MaxOrders
  /\ \E out \in StoreOutcomes :
       IF CreateOrderValidation(req) # "OK"
         THEN /\ out = "ok"
              /\ lastCall' = OrderReply("CreateOrder", CreateOrderValidation(req), "", NoOrder, req)
              /\ UNCHANGED <<orders, faults>>
       ELSE IF out = "error"
         THEN /\ lastCall' = StoreError(OrderReply("CreateOrder", "Internal", "", NoOrder, req))
              /\ faults' = faults + 1
              /\ UNCHANGED orders
       ELSE LET doc == NewOrderDocument(req, now, now)
                id == Len(orders) + 1
            IN /\ orders' = Append(orders, doc)
               /\ lastCall' = OrderReply("CreateOrder", "OK", OrderHex(id),
                                         CreateOrderResponse(OrderHex(id), req, doc), req)
               /\ UNCHANGED faults

\* The stock of the products the items name, each lowered by the quantity ordered.
Reserved(coll, items) ==
  [n \in DOMAIN coll |->
     [coll[n] EXCEPT !.stock_quantity =
        @ - TotalAmount([i \in DOMAIN items |->
                           [quantity |-> IF items[i].product_id = Hex(n)
                                           THEN items[i].quantity ELSE 0,
                            price |-> 1]])]]

\* CreateOrder that takes the quantities ordered out of the stock.
CreateOrderReservingStock(req) ==
  /\ InsertOrder(req)
  /\ products' = IF orders' # orders THEN Reserved(products, req.items) ELSE products
  /\ UNCHANGED <<now, pc, arg, ledger, started>>

\* CreateOrder touches the collection "orders" only.
CreateOrder(req) ==
  /\ InsertOrder(req)
  /\ UNCHANGED <<products, now, pc, arg, ledger, started>>

\* itemMap["quantity"].(int64): the assertion holds for an int64 value only.
AssertInt64(v) == v[1] = "int64"

\* "Convert items to proto format": the loop panics at the first item whose
\* quantity is no int64.
ItemsToProto(items) ==
  IF \A i \in DOMAIN items : AssertInt64(items[i].quantity)
    THEN [panic |-> FALSE,
          items |-> [i \in DOMAIN items |-> [product_id |-> items[i].product_id,
                                             quantity |-> items[i].quantity[2],
                                             price |-> items[i].price]]]
    ELSE [panic |-> TRUE, items |-> <<>>]

\* The pb.Order a handler builds from a document.
OrderToProto(idstr, doc) ==
  [id |-> idstr, user_id |-> doc.user_id, items |-> ItemsToProto(doc.items).items,
   status |-> doc.status, total_amount |-> doc.total_amount,
   created_at |-> FormatRFC3339(doc.created_at), updated_at |-> FormatRFC3339(doc.updated_at)]

\* The checks UpdateOrder starts with.
UpdateOrderValidation(idstr, status) ==
  IF idstr = "" THEN "InvalidArgument"
  ELSE IF status = "" THEN "InvalidArgument"
  ELSE IF OrderIDFromHex(idstr).err THEN "InvalidArgument"
  ELSE "OK"

\* A request that fails the checks is answered at once.
UpdateOrderReject(idstr, status) ==
  /\ UpdateOrderValidation(idstr, status) # "OK"
  /\ lastCall' = OrderReply("UpdateOrder", UpdateOrderValidation(idstr, status), idstr, NoOrder,
                            [NoAsk EXCEPT !.status = status])
  /\ UNCHANGED <<products, now, pc, arg, ledger, started, faults, orders>>

\* After the checks: the update document with the clock's reading.
UpdateOrderBegin(c, idstr, status) ==
  /\ c = FreeCaller
  /\ UpdateOrderValidation(idstr, status) = "OK"
  /\ pc' = [pc EXCEPT ![c] = "order_update"]
  /\ arg' = [arg EXCEPT ![c] = [Idle EXCEPT !.id = OrderIDFromHex(idstr).id,
                                            !.status = status, !.ts = now]]
  /\ lastCall' = NoCall
  /\ UNCHANGED <<products, now, ledger, started, faults, orders>>

\* SetStatus that writes the total anew as well.
SetStatusAndTotal(doc, status, ts) ==
  [doc EXCEPT !.status = status, !.updated_at = ts, !.total_amount = 0]

\* $set of status and updated_at.
SetStatus(doc, status, ts) == [doc EXCEPT !.status = status, !.updated_at = ts]

\* Caller c's handler of the order service returns.
ReturnOrder(c, reply) ==
  /\ pc' = [pc EXCEPT ![c] = "idle"]
  /\ arg' = [arg EXCEPT ![c] = Idle]
  /\ lastCall' = [reply EXCEPT !.ask = [NoAsk EXCEPT !.status = arg[c].status]]

\* The handler of caller c is one of the order service.
OrderInFlight(c) == pc[c] \in {"order_update", "order_convert", "order_get"}

\* Caller c's handler panics: the server installs no recovery, so the process of
\* the order service ends, and with it every handler it was running.  The client
\* gets no status from the handler; its connection breaks (Unavailable).
Panic(c, reply) ==
  /\ pc' = [d \in Callers |-> IF OrderInFlight(d) THEN "idle" ELSE pc[d]]
  /\ arg' = [d \in Callers |-> IF OrderInFlight(d) THEN Idle ELSE arg[d]]
  /\ lastCall' = [reply EXCEPT !.ask = [NoAsk EXCEPT !.status = arg[c].status]]

\* FindOneAndUpdate with ReturnDocument(After), decoded into updatedOrder.
UpdateOrderFindOneAndUpdate(c) ==
  /\ pc[c] = "order_update"
  /\ \E out \in StoreOutcomes :
       LET id == arg[c].id IN
       IF out = "error"
         THEN /\ ReturnOrder(c, StoreError(Reply("UpdateOrder", "Internal", OrderHex(id), NoOrder)))
              /\ faults' = faults + 1
              /\ UNCHANGED orders
       ELSE IF FindOne(orders, id) = <<>>
         THEN /\ ReturnOrder(c, Reply("UpdateOrder", "NotFound", OrderHex(id), NoOrder))
              /\ UNCHANGED <<orders, faults>>
       ELSE LET doc == SetStatus(orders[id], arg[c].status, arg[c].ts) IN
            /\ orders' = [orders EXCEPT ![id] = doc]
            /\ pc' = [pc EXCEPT ![c] = "order_convert"]
            /\ arg' = [arg EXCEPT ![c].doc = doc]
            /\ lastCall' = NoCall
            /\ UNCHANGED faults
  /\ UNCHANGED <<products, now, ledger, started>>

\* "Convert items to proto format", then the response.
UpdateOrderConvert(c) ==
  /\ pc[c] = "order_convert"
  /\ IF ItemsToProto(arg[c].doc.items).panic
       THEN Panic(c, Reply("UpdateOrder", "Unavailable", OrderHex(arg[c].id), NoOrder))
       ELSE ReturnOrder(c, Reply("UpdateOrder", "OK", OrderHex(arg[c].id),
                                 OrderToProto(OrderHex(arg[c].id), arg[c].doc)))
  /\ UNCHANGED <<products, now, ledger, started, faults, orders>>

\* The checks GetOrder starts with.
GetOrderValidation(idstr) ==
  IF idstr = "" THEN "InvalidArgument"
  ELSE IF OrderIDFromHex(idstr).err THEN "InvalidArgument"
  ELSE "OK"

\* GetOrder up to FindOne(...).Decode(&order): answered at once unless a document
\* is found, which goes on to the conversion.
GetOrderFindOne(c, idstr) ==
  /\ c = FreeCaller
  /\ \E out \in StoreOutcomes :
       LET id == OrderIDFromHex(idstr).id IN
       /\ (out = "error") => (GetOrderValidation(idstr) = "OK")
       /\ IF GetOrderValidation(idstr) # "OK"
            THEN /\ lastCall' = Reply("GetOrder", GetOrderValidation(idstr), idstr, NoOrder)
                 /\ UNCHANGED <<pc, arg, faults>>
          ELSE IF out = "error"
            THEN /\ lastCall' = StoreError(Reply("GetOrder", "Internal", idstr, NoOrder))
                 /\ faults' = faults + 1
                 /\ UNCHANGED <<pc, arg>>
          ELSE IF FindOne(orders, id) = <<>>
            THEN /\ lastCall' = Reply("GetOrder", "NotFound", idstr, NoOrder)
                 /\ UNCHANGED <<pc, arg, faults>>
          ELSE /\ pc' = [pc EXCEPT ![c] = "order_get"]
               /\ arg' = [arg EXCEPT ![c] = [Idle EXCEPT !.id = id, !.doc = orders[id]]]
               /\ lastCall' = NoCall
               /\ UNCHANGED faults
  /\ UNCHANGED <<products, now, ledger, started, orders>>

\* GetOrder's "Convert items to proto format", then the response.
GetOrderConvert(c) ==
  /\ pc[c] = "order_get"
  /\ IF ItemsToProto(arg[c].doc.items).panic
       THEN Panic(c, Reply("GetOrder", "Unavailable", OrderHex(arg[c].id), NoOrder))
       ELSE ReturnOrder(c, Reply("GetOrder", "OK", OrderHex(arg[c].id),
                                 OrderToProto(OrderHex(arg[c].id), arg[c].doc)))
  /\ UNCHANGED <<products, now, ledger, started, faults, orders>>

\* The order service and the clock.
NextOrders ==
  \/ Tick
  \/ \E req \in CreateOrderReqs : CreateOrder(req)
  \/ \E idstr \in OrderIdInputs, status \in Statuses : UpdateOrderReject(idstr, status)
  \/ \E c \in Callers, idstr \in OrderIdInputs, status \in Statuses :
       UpdateOrderBegin(c, idstr, status)
  \/ \E c \in Callers : UpdateOrderFindOneAndUpdate(c)
  \/ \E c \in Callers : UpdateOrderConvert(c)

SpecOrders == Init /\ [][NextOrders]_vars

\* The product service and the order service side by side, over the one database:
\* the requests that pass validation, stock changes on the first product and
\* status changes of the first order.
NextShop ==
  \/ \E req \in CreateReqs : CreateValidation(req) = "OK" /\ CreateProduct(req)
  \/ \E c \in Callers, n \in QuantityChanges : UpdateStockBegin(c, Hex(1), n)
  \/ \E c \in Callers : UpdateStockFindOneAndUpdate(c)
  \/ \E c \in Callers : UpdateStockRevert(c)
  \/ \E req \in CreateOrderReqs : CreateOrderValidation(req) = "OK" /\ CreateOrder(req)
  \/ \E c \in Callers : UpdateOrderBegin(c, OrderHex(1), "shipped")
  \/ \E c \in Callers : UpdateOrderFindOneAndUpdate(c)
  \/ \E c \in Callers : UpdateOrderConvert(c)

SpecShop == Init /\ [][NextShop]_vars

\* Every operation of the two services that can answer InvalidArgument or
\* NotFound, with the insertions they depend on: one stock change, one product
\* update and one status, every id a client may send; requests that pass
\* validation and requests that lack a name, a user or the items.
NextCore ==
  \/ \E req \in {r \in CreateReqs : r.stock_quantity = 1 /\ r.price = 2} : CreateProduct(req)
  \/ \E idstr \in IdInputs : GetProduct(idstr)
  \/ \E idstr \in IdInputs : UpdateProductReject(idstr)
  \/ \E c \in Callers, idstr \in IdInputs :
       UpdateProductBegin(c, idstr, [name |-> "b", description |-> "e", price |-> 3, category |-> "k"])
  \/ \E c \in Callers : UpdateProductFindOneAndUpdate(c)
  \/ \E idstr \in IdInputs : UpdateStockReject(idstr)
  \/ \E c \in Callers, idstr \in IdInputs : UpdateStockBegin(c, idstr, -2)
  \/ \E c \in Callers : UpdateStockFindOneAndUpdate(c)
  \/ \E c \in Callers : UpdateStockRevert(c)
  \/ \E req \in {r \in CreateOrderReqs : Len(r.items) # 1} : CreateOrder(req)
  \/ \E c \in Callers, idstr \in OrderIdInputs : GetOrderFindOne(c, idstr)
  \/ \E c \in Callers : GetOrderConvert(c)
  \/ \E idstr \in OrderIdInputs, status \in {"", "shipped"} : UpdateOrderReject(idstr, status)
  \/ \E c \in Callers, idstr \in OrderIdInputs : UpdateOrderBegin(c, idstr, "shipped")
  \/ \E c \in Callers : UpdateOrderFindOneAndUpdate(c)
  \/ \E c \in Callers : UpdateOrderConvert(c)

SpecCore == Init /\ [][NextCore]_vars

\* ------------------------------------------------------------ ListProducts
\* The page and limit a client sends (int32), and the category.
Pages == {-1, 0, 1, 2, 42949674, 2147483647}
Limits == {-1, 0, 1, 5, 10, 100, 101, 1000}
Categories == {"", "c"}

\* The product of two int32 values as Go computes it: the low 32 bits, signed.
\* Computed on 16-bit halves, b within -100..100.
Int32Mul(a, b) ==
  LET lo == (a % 65536) * b
      hi == ((a \div 65536) * b + (lo \div 65536)) % 65536
  IN IF hi >= 32768 THEN (hi - 65536) * 65536 + (lo % 65536)
     ELSE hi * 65536 + (lo % 65536)

\* ListProductsPaging that clamps a limit above 100 to 100.
ListProductsPagingClamped(page, limit) ==
  LET p == IF page < 1 THEN 1 ELSE page
      l == IF limit < 1 THEN 10 ELSE IF limit > 100 THEN 100 ELSE limit
  IN [page |-> p, limit |-> l, skip |-> Int32Mul(p - 1, l)]

\* ListProductsPaging that raises a limit below 1 to 1.
ListProductsPagingFloor(page, limit) ==
  LET p == IF page < 1 THEN 1 ELSE page
      l == IF limit < 1 THEN 1 ELSE IF limit > 100 THEN 10 ELSE limit
  IN [page |-> p, limit |-> l, skip |-> Int32Mul(p - 1, l)]

\* "Set default values for pagination" and "Calculate skip value" of ListProducts.
ListProductsPaging(page, limit) ==
  LET p == IF page < 1 THEN 1 ELSE page
      l == IF limit < 1 \/ limit > 100 THEN 10 ELSE limit
  IN [page |-> p, limit |-> l, skip |-> Int32Mul(p - 1, l)]

\* The same lines of ListOrders.
ListOrdersPaging(page, limit) ==
  LET p == IF page < 1 THEN 1 ELSE page
      l == IF limit < 1 \/ limit > 100 THEN 10 ELSE limit
  IN [page |-> p, limit |-> l, skip |-> Int32Mul(p - 1, l)]

\* The same lines of ListUsers.
ListUsersPaging(page, limit) ==
  LET p == IF page < 1 THEN 1 ELSE page
      l == IF limit < 1 \/ limit > 100 THEN 10 ELSE limit
  IN [page |-> p, limit |-> l, skip |-> Int32Mul(p - 1, l)]

\* The filter: every document for an empty category, else those of the category.
Matching(coll, category) ==
  {n \in DOMAIN coll : category = "" \/ coll[n].category = category}

CountDocuments(coll, category) == Cardinality(Matching(coll, category))

\* The store leaves the order of documents with equal sort keys open: it may
\* return them in the order of their ids or in the reverse order.
TieBreaks == {"asc", "desc"}

\* Sort by created_at descending: document m comes before document n.
Before(coll, tb, m, n) ==
  \/ coll[m].created_at > coll[n].created_at
  \/ coll[m].created_at = coll[n].created_at /\ IF tb = "asc" THEN m < n ELSE m > n

\* Find with filter, sort, skip and limit: the ids of the documents of the page.
Find(coll, category, skip, limit, tb) ==
  LET S == Matching(coll, category)
      left == Cardinality(S) - skip
      count == IF left < 0 THEN 0 ELSE IF left < limit THEN left ELSE limit
  IN [k \in 1..count |->
        CHOOSE n \in S : Cardinality({m \in S : Before(coll, tb, m, n)}) = skip + k - 1]

\* The pb.ListProductsResponse: the page's documents converted, and the total.
ListProductsResponse(coll, ids, total) ==
  [products |-> [k \in DOMAIN ids |-> ToProto(Hex(ids[k]), coll[ids[k]])], total |-> total]

NoList == [products |-> <<>>, total |-> 0]

\* The store refuses a negative skip: Find returns an error.
FindRefused(skip) == skip < 0

ListsInFlight == Cardinality({c \in Callers : pc[c] \in {"list_count", "list_find"}})

\* Caller c's ListProducts handler returns.
ReturnList(c, reply) ==
  /\ pc' = [pc EXCEPT ![c] = "idle"]
  /\ arg' = [arg EXCEPT ![c] = Idle]
  /\ lastCall' = [reply EXCEPT !.ask = arg[c].ask, !.solo = arg[c].solo]

\* The paging defaults, the filter and the skip value.  History: solo holds until
\* a document is inserted while the handler runs.
ListProductsBegin(c, category, page, limit) ==
  /\ c = FreeCaller
  /\ ListsInFlight < MaxLists
  /\ pc' = [pc EXCEPT ![c] = "list_count"]
  /\ arg' = [arg EXCEPT ![c] =
               [Idle EXCEPT !.page = ListProductsPaging(page, limit).page,
                            !.limit = ListProductsPaging(page, limit).limit,
                            !.skip = ListProductsPaging(page, limit).skip,
                            !.category = category, !.solo = TRUE,
                            !.ask = [NoAsk EXCEPT !.category = category, !.page = page,
                                                  !.limit = limit]]]
  /\ lastCall' = NoCall
  /\ UNCHANGED <<products, now, ledger, started, faults, orders>>

\* "Get total count": CountDocuments.
ListProductsCount(c) ==
  /\ pc[c] = "list_count"
  /\ \E out \in StoreOutcomes :
       IF out = "error"
         THEN /\ ReturnList(c, StoreError(Reply("ListProducts", "Internal", "", NoList)))
              /\ faults' = faults + 1
         ELSE /\ pc' = [pc EXCEPT ![c] = "list_find"]
              /\ arg' = [arg EXCEPT ![c].total = CountDocuments(products, arg[c].category)]
              /\ lastCall' = NoCall
              /\ UNCHANGED faults
  /\ UNCHANGED <<products, now, ledger, started, orders>>

\* "Find products", the decoding of the cursor, and the response.
ListProductsFind(c) ==
  /\ pc[c] = "list_find"
  /\ \E out \in StoreOutcomes, tb \in TieBreaks :
       IF out = "error"
         THEN /\ tb = "asc"
              /\ ReturnList(c, StoreError(Reply("ListProducts", "Internal", "", NoList)))
              /\ faults' = faults + 1
       ELSE IF FindRefused(arg[c].skip)
         THEN /\ tb = "asc"
              /\ ReturnList(c, StoreError(Reply("ListProducts", "Internal", "", NoList)))
              /\ UNCHANGED faults
       ELSE /\ ReturnList(c, Reply("ListProducts", "OK", "",
                                   ListProductsResponse(products,
                                     Find(products, arg[c].category, arg[c].skip,
                                          arg[c].limit, tb),
                                     arg[c].total)))
            /\ UNCHANGED faults
  /\ UNCHANGED <<products, now, ledger, started, orders>>

\* A collection of n products inserted two per tick, every third of category "k".
Listed(n) ==
  [i \in 1..n |-> [name |-> "a", description |-> "d", price |-> 2, stock_quantity |-> 1,
                   category |-> IF i % 3 = 0 THEN "k" ELSE "c",
                   created_at |-> (i + 1) \div 2, updated_at |-> (i + 1) \div 2]]

\* The service once up to MaxListed products have been created.
InitList ==
  /\ \E n \in 0..MaxListed :
       /\ products = Listed(n)
       /\ ledger = [i \in 1..n |-> NewLedger(1)]
       /\ now = (n + 1) \div 2
  /\ pc = [c \in Callers |-> "idle"]
  /\ arg = [c \in Callers |-> Idle]
  /\ lastCall = NoCall
  /\ started = 0
  /\ faults = 0
  /\ orders = <<>>

\* The list requests, and the insertions that may fall between their two reads.
NextList ==
  \/ \E req \in CreateReqs : CreateProduct(req)
  \/ \E c \in Callers, category \in Categories, page \in Pages, limit \in Limits :
       ListProductsBegin(c, category, page, limit)
  \/ \E c \in Callers : ListProductsCount(c)
  \/ \E c \in Callers : ListProductsFind(c)

SpecList == InitList /\ [][NextList]_vars

\* ------------------------------------------------------------ gateway
\* net/http status codes the handlers of the gateway use.
StatusOK == 200
StatusCreated == 201
StatusInternalServerError == 500

\* The bodies a client sends to PUT /products/:id/stock: quantity is the int32
\* field; 90 is the quantity of the test script.
StockBodies == {[quantity |-> n] : n \in QuantityChanges \cup {90}}

\* The pb.UpdateStockRequest with the quantity negated.
UpdateStockRequestNegated(id, body) == [id |-> id, quantity_change |-> -body.quantity]

\* The pb.UpdateStockRequest updateStock builds from the path and the body.
UpdateStockRequest(id, body) == [id |-> id, quantity_change |-> body.quantity]

\* The gin.H updateStock answers with: "a simplified response".
UpdateStockJSON(product) ==
  [id |-> product.id, name |-> product.name, stock_quantity |-> product.stock_quantity]

\* updateStock of the gateway, its path parameter and body bound: the call of
\* the product service, which fails the id checks or goes on to its store call.
GatewayUpdateStock(c, id, body) ==
  /\ id # ""
  /\ LET req == UpdateStockRequest(id, body) IN
     \/ UpdateStockReject(req.id)
     \/ UpdateStockEnter(c, req.id, req.quantity_change,
                         [NoAsk EXCEPT !.quantity = body.quantity])

\* The gateway's stock route over the product service: products are created,
\* their stock changed through PUT /products/:id/stock.
NextGateway ==
  \/ \E req \in {r \in CreateReqs : r.name = "a" /\ r.price = 2} : CreateProduct(req)
  \/ \E c \in Callers, id \in IdInputs, body \in StockBodies : GatewayUpdateStock(c, id, body)
  \/ \E c \in Callers : UpdateStockFindOneAndUpdate(c)
  \/ \E c \in Callers : UpdateStockRevert(c)

SpecGateway == Init /\ [][NextGateway]_vars

\* The HTTP status with which the gateway relays the answer of the core to a
\* request it has bound and passed on: 500 for every error, whatever its code.
GatewayStatus(op, code) ==
  IF code # "OK" THEN StatusInternalServerError
  ELSE IF op \in {"CreateProduct", "CreateOrder"} THEN StatusCreated
  ELSE StatusOK

\* ------------------------------------------------------------ properties
\* No store call has failed so far.
NoFault == faults = 0

\* No UpdateStock call is in flight.
StockQuiescent == \A c \in Callers : ~UpdateStockInFlight(c)

\* What GetProduct answers for the n-th product when its store call succeeds.
GetOf(n) == GetProductResponse(products, Hex(n), "ok")

\* The step just taken answered an UpdateStock call that ran alone from its start
\* on an existing product, with no store call failed in the run.
SoloStockReply == lastCall.op = "UpdateStock" /\ lastCall.solo /\ NoFault

\* C1: in every reachable state every stored stock_quantity is >= 0, and so is
\* the stock_quantity GetProduct returns.
C1_StockNeverNegative ==
  \A n \in DOMAIN products :
    /\ products[n].stock_quantity >= 0
    /\ GetOf(n).code = "OK" => GetOf(n).ret.stock_quantity >= 0

\* C2: with a store that never fails, in every state in which no UpdateStock call
\* is in flight every stock_quantity is >= 0.
C2_NonNegativeWhenQuiescent ==
  (NoFault /\ StockQuiescent) => \A n \in DOMAIN products : products[n].stock_quantity >= 0

\* C3: with a store that never fails, once no UpdateStock call is in flight the
\* stock_quantity of every product is its initial stock plus the sum of the changes
\* of exactly the calls answered OK.
C3_StockIsInitialPlusSuccessful ==
  (NoFault /\ StockQuiescent) =>
    \A n \in DOMAIN products :
      products[n].stock_quantity = ledger[n].init + ledger[n].okSum

\* C3's case: calls that overlapped have all returned, one answered OK and one
\* rejected.
C3_Witness ==
  /\ NoFault /\ StockQuiescent
  /\ \E n \in DOMAIN products :
       /\ ledger[n].overlapped /\ ledger[n].rejected
       /\ ledger[n].okSum # 0 /\ ledger[n].calls = MaxCalls

\* C4: with a store that never fails, UpdateStock calls made one after another on a
\* product, whose running sum never goes negative, are all answered OK and leave
\* the stock at initial + sum of the changes.
C4_SerialCallsAddUp ==
  (NoFault /\ StockQuiescent) =>
    \A n \in DOMAIN products :
      (~ledger[n].overlapped /\ ~ledger[n].dipped) =>
        /\ ~ledger[n].rejected
        /\ ledger[n].okSum = ledger[n].reqSum
        /\ products[n].stock_quantity = ledger[n].init + ledger[n].reqSum

\* C4's case: several calls one after another, a consumption among them, have brought
\* the stock below its initial value.
C4_Witness ==
  /\ NoFault /\ StockQuiescent
  /\ \E n \in DOMAIN products :
       /\ ~ledger[n].overlapped /\ ~ledger[n].dipped /\ ledger[n].calls >= 2
       /\ products[n].stock_quantity < ledger[n].init

\* C5: an UpdateStock call that ran alone on a product with stock + change < 0 is
\* answered FailedPrecondition, and GetProduct then returns the stock as before
\* the call.
C5_RejectedCallRestoresStock ==
  (SoloStockReply /\ lastCall.pre.stock_quantity + lastCall.delta < 0) =>
    /\ lastCall.code = "FailedPrecondition"
    /\ GetProductResponse(products, lastCall.id, "ok").code = "OK"
    /\ GetProductResponse(products, lastCall.id, "ok").ret.stock_quantity
         = lastCall.pre.stock_quantity

\* C5's case: such a call has just been answered, on a product with stock in hand.
C5_Witness ==
  /\ SoloStockReply /\ lastCall.pre.stock_quantity + lastCall.delta < 0
  /\ lastCall.pre.stock_quantity > 0
  /\ lastCall.code = "FailedPrecondition"

\* C6: an UpdateStock call that ran alone and is answered FailedPrecondition leaves
\* every field of the product as it was before the call.
C6_RejectedCallLeavesRecord ==
  (SoloStockReply /\ lastCall.code = "FailedPrecondition") =>
    products[ObjectIDFromHex(lastCall.id).id] = lastCall.pre

\* C7: with a store that never fails, an UpdateStock call with a change >= 0 is
\* never answered FailedPrecondition.
C7_RestockNeverRejected ==
  (lastCall.op = "UpdateStock" /\ NoFault /\ lastCall.delta >= 0) =>
    lastCall.code # "FailedPrecondition"

\* C8: a call one of whose store calls failed is answered Internal.
C8_StoreErrorIsInternal == lastCall.storeErr => lastCall.code = "Internal"

\* C9: every stored product has a non-empty name and a non-negative price.
C9_NameAndPriceValid ==
  \A n \in DOMAIN products : products[n].name # "" /\ products[n].price >= 0

\* C10: CreateProduct answers InvalidArgument and inserts nothing exactly when the
\* name is empty, the price negative or the stock negative; otherwise, its store
\* call succeeding, it inserts one product and returns it with the stock asked for.
C10_CreateContract ==
  [][lastCall'.op = "CreateProduct" =>
       LET r == lastCall'.req
           invalid == r.name = "" \/ r.price < 0 \/ r.stock_quantity < 0
       IN /\ (lastCall'.code = "InvalidArgument") <=> invalid
          /\ invalid => products' = products
          /\ (~invalid /\ ~lastCall'.storeErr) =>
               /\ lastCall'.code = "OK"
               /\ Len(products') = Len(products) + 1
               /\ SubSeq(products', 1, Len(products)) = products
               /\ lastCall'.id = Hex(Len(products'))
               /\ products'[Len(products')].stock_quantity = r.stock_quantity
               /\ lastCall'.ret.stock_quantity = r.stock_quantity
               /\ lastCall'.ret.stock_quantity >= 0]_vars

\* C10's case: a request with a negative stock has just been answered
\* InvalidArgument, the collection still empty.
C10_Witness ==
  /\ lastCall.op = "CreateProduct" /\ lastCall.code = "InvalidArgument"
  /\ lastCall.req.stock_quantity < 0 /\ products = <<>>

\* C11: when CreateProduct has just answered OK, so that nothing has written to
\* the product since, GetProduct with the returned id answers OK with that id and
\* the name, description, price, stock_quantity and category of the request.
C11_CreateThenGet ==
  (lastCall.op = "CreateProduct" /\ lastCall.code = "OK") =>
    LET got == GetProductResponse(products, lastCall.id, "ok") IN
    /\ got.code = "OK"
    /\ got.ret.id = lastCall.id
    /\ got.ret.name = lastCall.req.name
    /\ got.ret.description = lastCall.req.description
    /\ got.ret.price = lastCall.req.price
    /\ got.ret.stock_quantity = lastCall.req.stock_quantity
    /\ got.ret.category = lastCall.req.category

\* C11's case: a product with a description, a category and stock has just been
\* created, after the clock's first tick.
C11_Witness ==
  /\ lastCall.op = "CreateProduct" /\ lastCall.code = "OK" /\ now > 0
  /\ lastCall.req.description # "" /\ lastCall.req.category # ""
  /\ lastCall.req.stock_quantity > 0
  /\ GetProductResponse(products, lastCall.id, "ok").ret.name = lastCall.req.name

\* The caller whose UpdateProduct handler returns in the step.
UpdateProductReturns(c) == pc[c] = "product_update" /\ pc'[c] = "idle"

\* C12: an UpdateProduct call whose store call succeeds, on an existing product,
\* is answered OK and sets name, description, price and category to the request's
\* and updated_at to the clock reading the handler took, leaving stock_quantity,
\* created_at, the document's place (its id), every other document and the record
\* of the stock changes as they are, whatever UpdateStock calls are in flight; on
\* an absent id it is answered NotFound and the collection stays as it is.
C12_UpdateProductFrame ==
  [][\A c \in Callers :
       (UpdateProductReturns(c) /\ ~lastCall'.storeErr) =>
         LET id == arg[c].id IN
         IF id \in DOMAIN products
           THEN /\ lastCall'.code = "OK"
                /\ DOMAIN products' = DOMAIN products
                /\ \A n \in DOMAIN products : n # id => products'[n] = products[n]
                /\ products'[id].name = lastCall'.req.name
                /\ products'[id].description = lastCall'.req.description
                /\ products'[id].price = lastCall'.req.price
                /\ products'[id].category = lastCall'.req.category
                /\ products'[id].updated_at = arg[c].ts
                /\ products'[id].stock_quantity = products[id].stock_quantity
                /\ products'[id].created_at = products[id].created_at
                /\ lastCall'.id = Hex(id)
                /\ ledger' = ledger
           ELSE /\ lastCall'.code = "NotFound"
                /\ products' = products]_vars

\* C12's case: an UpdateProduct call has just been answered OK while an UpdateStock
\* call, its increment applied and its revert still to come, is in flight on the
\* same product.
C12_Witness ==
  /\ lastCall.op = "UpdateProduct" /\ lastCall.code = "OK"
  /\ \E c \in Callers :
       /\ pc[c] = "stock_revert" /\ Hex(arg[c].id) = lastCall.id
       /\ products[arg[c].id].name = lastCall.req.name
       /\ products[arg[c].id].stock_quantity < 0

\* The sum of f over the set S.
RECURSIVE SumOver(_, _)
SumOver(f, S) ==
  IF S = {} THEN 0
  ELSE LET i == CHOOSE j \in S : TRUE IN f[i] + SumOver(f, S \ {i})

\* The sum over an order's stored items of quantity * price.
StoredItemsSum(doc) ==
  SumOver([i \in DOMAIN doc.items |-> doc.items[i].quantity[2] * doc.items[i].price],
          DOMAIN doc.items)

\* The stored order has the items (quantity 2, price 10) and (quantity 1, price 5).
TwoAndOne(doc) ==
  /\ Len(doc.items) = 2
  /\ doc.items[1].quantity[2] = 2 /\ doc.items[1].price = 10
  /\ doc.items[2].quantity[2] = 1 /\ doc.items[2].price = 5

\* C13: in every reachable state the total_amount of every stored order is the sum
\* over its stored items of quantity * price (25 for the items (2, 10) and (1, 5)),
\* and no step changes the total_amount or the items of a stored order.
C13_TotalIsSumOfItems ==
  /\ [](\A n \in DOMAIN orders :
          /\ orders[n].total_amount = StoredItemsSum(orders[n])
          /\ TwoAndOne(orders[n]) => orders[n].total_amount = 25)
  /\ [][\A n \in DOMAIN orders :
          /\ n \in DOMAIN orders'
          /\ orders'[n].total_amount = orders[n].total_amount
          /\ orders'[n].items = orders[n].items]_vars

\* C13's case: an order with the items (2, 10) and (1, 5) is stored, its status
\* updated since its creation.
C13_Witness ==
  \E n \in DOMAIN orders :
    /\ TwoAndOne(orders[n]) /\ orders[n].total_amount = 25
    /\ orders[n].status = "shipped"

\* C14: CreateOrder answers InvalidArgument and inserts nothing exactly when the
\* user id is empty or there are no items; otherwise, its store call succeeding, it
\* inserts exactly one order, with status pending and the request's user id and
\* items, and returns it, whatever products exist and whatever the store holds on
\* the user; the products stay as they are.
C14_CreateOrderContract ==
  [][lastCall'.op = "CreateOrder" =>
       LET r == lastCall'.ask
           invalid == r.user_id = "" \/ r.items = <<>>
           new == Len(orders) + 1
       IN /\ (lastCall'.code = "InvalidArgument") <=> invalid
          /\ invalid => orders' = orders
          /\ (~invalid /\ ~lastCall'.storeErr) =>
               /\ lastCall'.code = "OK"
               /\ Len(orders') = new
               /\ SubSeq(orders', 1, Len(orders)) = orders
               /\ orders'[new].status = "pending"
               /\ orders'[new].user_id = r.user_id
               /\ ItemsToProto([i \in DOMAIN r.items |->
                                  [orders'[new].items[i] EXCEPT !.quantity = <<"int64", @[2]>>]]).items
                    = r.items
               /\ lastCall'.id = OrderHex(new)
               /\ lastCall'.ret.id = OrderHex(new)
               /\ lastCall'.ret.status = "pending"
               /\ lastCall'.ret.user_id = r.user_id
               /\ lastCall'.ret.items = r.items
               /\ lastCall'.ret.total_amount = orders'[new].total_amount
          /\ products' = products]_vars

\* C14's case: an order naming a product that cannot exist has just been created,
\* no product being stored at all.
C14_Witness ==
  /\ lastCall.op = "CreateOrder" /\ lastCall.code = "OK" /\ products = <<>>
  /\ lastCall.ask.items[1].product_id = "zz"
  /\ Len(orders) = 1 /\ orders[1].status = "pending"

\* C15: no step changes the place (id), user_id, items, total_amount or created_at
\* of a stored order, whatever UpdateOrder calls run and overlap.
C15_OrderFrame ==
  [][\A n \in DOMAIN orders :
       /\ n \in DOMAIN orders'
       /\ orders'[n].user_id = orders[n].user_id
       /\ orders'[n].items = orders[n].items
       /\ orders'[n].total_amount = orders[n].total_amount
       /\ orders'[n].created_at = orders[n].created_at]_vars

\* C15's case: two UpdateOrder calls on one order overlap, the first having written
\* its status and updated_at, later than created_at, and the second about to write.
C15_Witness ==
  \E n \in DOMAIN orders, c, d \in Callers :
    /\ pc[c] = "order_convert" /\ pc[d] = "order_update"
    /\ arg[c].id = n /\ arg[d].id = n
    /\ orders[n].status = arg[c].status /\ arg[d].status # arg[c].status
    /\ orders[n].updated_at > orders[n].created_at

\* The caller whose UpdateOrder handler ends in the step, after its store call.
UpdateOrderEnds(c) == OrderInFlight(c) /\ pc'[c] = "idle" /\ lastCall'.op = "UpdateOrder"

\* C16: UpdateOrder with an empty status is answered InvalidArgument and leaves the
\* orders as they are; with a non-empty status on an existing order, its store call
\* succeeding, it is answered OK whatever the status was, with the requested status
\* stored and returned; and no stored status is ever empty.
C16_UpdateStatusContract ==
  /\ [](\A n \in DOMAIN orders : orders[n].status # "")
  /\ [][(lastCall'.op = "UpdateOrder" /\ lastCall'.ask.status = "") =>
          (lastCall'.code = "InvalidArgument" /\ orders' = orders)]_vars
  /\ [][\A c \in Callers :
          (UpdateOrderEnds(c) /\ lastCall'.ask = [NoAsk EXCEPT !.status = arg[c].status]
             /\ ~lastCall'.storeErr /\ arg[c].id \in DOMAIN orders) =>
            /\ lastCall'.code = "OK"
            /\ lastCall'.ret.status = arg[c].status]_vars
  /\ [][\A c \in Callers :
          (pc[c] = "order_update" /\ pc'[c] = "order_convert") =>
            orders'[arg[c].id].status = arg[c].status]_vars

\* Caller c's ListProducts handler has set its paging and not returned yet.
Listing(c) == pc[c] \in {"list_count", "list_find"}

ListProductsAnswer(coll, category, page, limit, tb) ==
  LET q == ListProductsPaging(page, limit) IN
  IF FindRefused(q.skip) THEN [code |-> "Internal", ret |-> NoList]
  ELSE [code |-> "OK",
        ret |-> ListProductsResponse(coll, Find(coll, category, q.skip, q.limit, tb),
                                     CountDocuments(coll, category))]

\* The step just taken answered a ListProducts call whose store calls succeeded,
\* no document inserted while it ran.
QuietListReply == lastCall.op = "ListProducts" /\ lastCall.solo /\ ~lastCall.storeErr

\* C18: a ListProducts call with page 0 is answered as the call with page 1 and the
\* same limit is, and a call with limit 0 as the call with limit 10 and the same
\* page is, on the same category and collection; so the calls with (page, limit) =
\* (0, 10), (1, 0) and (0, 0) are answered as the call with (1, 10) is.
C18_ZeroIsDefault ==
  (QuietListReply /\ (lastCall.ask.page = 0 \/ lastCall.ask.limit = 0)) =>
    LET a == lastCall.ask
        page == IF a.page = 0 THEN 1 ELSE a.page
        limit == IF a.limit = 0 THEN 10 ELSE a.limit
    IN /\ \E tb \in TieBreaks :
            [code |-> lastCall.code, ret |-> lastCall.ret]
              = ListProductsAnswer(products, a.category, page, limit, tb)
       /\ (a.page \in {0, 1} /\ a.limit \in {0, 10}) =>
            \E tb \in TieBreaks :
              [code |-> lastCall.code, ret |-> lastCall.ret]
                = ListProductsAnswer(products, a.category, 1, 10, tb)

\* C18's case: a call with page 0 and limit 0 on a category with more than ten
\* products has been answered with ten of them.
C18_Witness ==
  /\ QuietListReply /\ lastCall.ask.page = 0 /\ lastCall.ask.limit = 0
  /\ lastCall.code = "OK" /\ Len(lastCall.ret.products) = 10
  /\ lastCall.ret.total = MaxListed

\* The step is one of an order service handler: it answers CreateOrder or
\* UpdateOrder, or moves an UpdateOrder handler.
OrderStep ==
  \/ lastCall'.op \in {"CreateOrder", "UpdateOrder"}
  \/ \E c \in Callers :
       /\ pc'[c] # pc[c]
       /\ pc[c] \in {"order_update", "order_convert"} \/ pc'[c] \in {"order_update", "order_convert"}

\* The step is one of an UpdateStock handler.
StockStep ==
  \E c \in Callers :
    /\ pc'[c] # pc[c]
    /\ pc[c] \in {"stock_update", "stock_revert"} \/ pc'[c] \in {"stock_update", "stock_revert"}

\* The quantity ordered of the n-th product exceeds its stock.
ExceedsStock(items, n) ==
  \E i \in DOMAIN items :
    items[i].product_id = Hex(n) /\ items[i].quantity > products[n].stock_quantity

\* C19: no step of CreateOrder or UpdateOrder changes a product or the record of
\* its stock changes, no step of UpdateStock changes an order, and a valid
\* CreateOrder whose store call succeeds is answered OK whatever the stock of the
\* products its items name.
C19_OrdersAndStockApart ==
  [][/\ OrderStep => (products' = products /\ ledger' = ledger)
     /\ StockStep => orders' = orders
     /\ (lastCall'.op = "CreateOrder" /\ lastCall'.ask.user_id # ""
           /\ lastCall'.ask.items # <<>> /\ ~lastCall'.storeErr) =>
          (lastCall'.code = "OK" /\ Len(orders') = Len(orders) + 1)]_vars

\* C19's case: an order for two pieces of a product with less stock has just been
\* created while an UpdateStock call on that product is in flight.
C19_Witness ==
  /\ lastCall.op = "CreateOrder" /\ lastCall.code = "OK"
  /\ 1 \in DOMAIN products /\ ExceedsStock(lastCall.ask.items, 1)
  /\ products[1].stock_quantity = ledger[1].init + ledger[1].reqSum
  /\ \E c \in Callers : pc[c] = "stock_update" /\ arg[c].id = 1

\* C20: the gateway relays InvalidArgument as 400, NotFound as 404, Internal as 500
\* and FailedPrecondition as a 4xx status, so NotFound and FailedPrecondition never
\* with the status it gives Internal.
C20_GatewayMapsErrorKinds ==
  lastCall.op # "none" =>
    LET st == GatewayStatus(lastCall.op, lastCall.code) IN
    /\ lastCall.code = "InvalidArgument" => st = 400
    /\ lastCall.code = "NotFound" => st = 404
    /\ lastCall.code = "FailedPrecondition" => (st >= 400 /\ st < 500)
    /\ lastCall.code = "Internal" => st = 500
    /\ lastCall.code \in {"NotFound", "FailedPrecondition"} =>
         st # GatewayStatus(lastCall.op, "Internal")

\* C21: GetProduct and GetOrder answer InvalidArgument for an id that is empty or
\* no ObjectID, NotFound for an ObjectID under which nothing is stored, and
\* otherwise OK with the record stored under that id; neither changes a store.
C21_GetContract ==
  [][/\ (lastCall'.op \in {"GetProduct", "GetOrder"}) =>
          (products' = products /\ orders' = orders)
     /\ (lastCall'.op = "GetProduct" /\ ~lastCall'.storeErr) =>
          IF lastCall'.id = "" \/ ObjectIDFromHex(lastCall'.id).err
            THEN lastCall'.code = "InvalidArgument"
          ELSE IF ObjectIDFromHex(lastCall'.id).id \notin DOMAIN products
            THEN lastCall'.code = "NotFound"
          ELSE /\ lastCall'.code = "OK"
               /\ lastCall'.ret = ToProto(lastCall'.id, products[ObjectIDFromHex(lastCall'.id).id])
     /\ (lastCall'.op = "GetOrder" /\ ~lastCall'.storeErr) =>
          IF lastCall'.id = "" \/ OrderIDFromHex(lastCall'.id).err
            THEN lastCall'.code = "InvalidArgument"
          ELSE IF OrderIDFromHex(lastCall'.id).id \notin DOMAIN orders
            THEN lastCall'.code = "NotFound"
          ELSE \E c \in Callers :
                 /\ pc[c] = "order_get" /\ pc'[c] = "idle"
                 /\ lastCall'.code = "OK"
                 /\ lastCall'.ret.id = lastCall'.id
                 /\ lastCall'.ret.user_id = arg[c].doc.user_id
                 /\ lastCall'.ret.status = arg[c].doc.status
                 /\ lastCall'.ret.total_amount = arg[c].doc.total_amount
                 /\ Len(lastCall'.ret.items) = Len(arg[c].doc.items)]_vars

\* C22: for every page and limit a client sends, the skip handed to the store is
\* the product (page - 1) * limit of the normalised values, without wrapping, and
\* is not negative.  The product is stated by division, within 32 bits: skip is
\* a multiple of limit whose quotient is page - 1.
C22_SkipNeverWraps ==
  \A c \in Callers :
    Listing(c) =>
      /\ arg[c].skip >= 0
      /\ arg[c].skip % arg[c].limit = 0
      /\ arg[c].skip \div arg[c].limit = arg[c].page - 1

\* C23: a ListProducts call during which nothing is written returns exactly the
\* products at positions [skip, skip + limit) of those matching the filter in
\* descending order of created_at, skip being (page - 1) * limit of the normalised
\* values; the filter matches every product when the category asked is empty and
\* the products of that category otherwise.  A position is stated by counting: the
\* k-th product returned has at most skip + k - 1 matching products created later
\* and at least skip + k created no earlier.  A page - 1 of at least the number of
\* matching products puts skip past the last of them.
C23_ListReturnsThePage ==
  QuietListReply =>
    LET a == lastCall.ask
        p == IF a.page < 1 THEN 1 ELSE a.page
        l == IF a.limit < 1 \/ a.limit > 100 THEN 10 ELSE a.limit
        S == {n \in DOMAIN products : a.category = "" \/ products[n].category = a.category}
        N == Cardinality(S)
        skip == IF p - 1 >= N THEN N ELSE (p - 1) * l
        left == IF N - skip < 0 THEN 0 ELSE IF N - skip < l THEN N - skip ELSE l
        r == lastCall.ret.products
    IN /\ lastCall.code = "OK"
       /\ Len(r) = left
       /\ \A k \in DOMAIN r :
            LET n == ObjectIDFromHex(r[k].id).id IN
            /\ n \in S
            /\ r[k] = ToProto(r[k].id, products[n])
            /\ Cardinality({m \in S : products[m].created_at > products[n].created_at})
                 <= skip + k - 1
            /\ Cardinality({m \in S : products[m].created_at >= products[n].created_at})
                 >= skip + k
       /\ \A j, k \in DOMAIN r : j # k => r[j].id # r[k].id

\* C24: the total of a ListProducts call is the number of products matching the
\* filter when the count is read, whatever the page and limit; a page read that
\* meets the matching products as the count read left them, its Find served by
\* the store, returns min(limit, max(0, total - skip)) products together with that
\* total, skip being the value handed to the store.
C24_TotalAndPage ==
  [][\A c \in Callers :
       LET matching == Cardinality({n \in DOMAIN products :
                         arg[c].category = "" \/ products[n].category = arg[c].category})
           left == matching - arg[c].skip
       IN /\ (pc[c] = "list_count" /\ pc'[c] = "list_find") => arg'[c].total = matching
          /\ (pc[c] = "list_find" /\ pc'[c] = "idle" /\ faults' = faults
                /\ arg[c].total = matching) =>
               /\ lastCall'.code = "OK"
               /\ lastCall'.ret.total = arg[c].total
               /\ Len(lastCall'.ret.products)
                    = IF left < 0 THEN 0 ELSE IF left < arg[c].limit THEN left ELSE arg[c].limit]_vars

\* A CreateProduct has landed between the two reads of a ListProducts call: the
\* page returned holds more matching products than the total accounts for.
C24_StaleTotal ==
  /\ lastCall.op = "ListProducts" /\ lastCall.code = "OK" /\ ~lastCall.solo
  /\ lastCall.ask.page = 1
  /\ Len(lastCall.ret.products) > lastCall.ret.total

\* The store calls an UpdateStock handler at this label may still make.
StockCallsLeft(label) ==
  IF label = "stock_update" THEN 2 ELSE IF label = "stock_revert" THEN 1 ELSE 0

\* C25: an UpdateStock call ends after at most two writes and never tries a store
\* call again.  Its first store call leaves the collection alone or applies the one
\* increment of the change asked, and goes on to the revert exactly when the stock
\* read back is negative; the revert, the only other store call, writes at most the
\* one increment of minus that change and ends the call.  Every write is the step
\* of one handler or an insertion, and no other operation writes after a failure:
\* CreateProduct and UpdateProduct answered with an error have written nothing and
\* end with their one store call.  Under fair scheduling every call in flight ends.
C25_StockCallsEnd ==
  /\ [][/\ \A c \in Callers :
            LET id == arg[c].id IN
            /\ (UpdateStockInFlight(c) /\ pc'[c] # pc[c]) =>
                 StockCallsLeft(pc'[c]) < StockCallsLeft(pc[c])
            /\ (pc[c] = "stock_update" /\ pc'[c] # pc[c]) =>
                 /\ \/ products' = products
                    \/ products' = [products EXCEPT
                                      ![id].stock_quantity = @ + arg[c].delta,
                                      ![id].updated_at = arg[c].ts]
                 /\ (pc'[c] = "stock_revert") <=>
                      (products' # products /\ products'[id].stock_quantity < 0)
            /\ (pc[c] = "stock_revert" /\ pc'[c] # pc[c]) =>
                 /\ pc'[c] = "idle"
                 /\ \/ products' = products
                    \/ products' = [products EXCEPT ![id].stock_quantity = @ - arg[c].delta]
            /\ (pc[c] = "product_update" /\ pc'[c] # pc[c]) =>
                 /\ pc'[c] = "idle"
                 /\ lastCall'.code # "OK" => products' = products
        /\ (lastCall'.op = "CreateProduct" /\ lastCall'.code # "OK") => products' = products
        /\ products' # products =>
             \/ lastCall'.op = "CreateProduct"
             \/ \E c \in Callers :
                  pc[c] \in {"stock_update", "stock_revert", "product_update"} /\ pc'[c] # pc[c]]_vars
  /\ \A c \in Callers : UpdateStockInFlight(c) ~> (pc[c] = "idle")

\* C25's case: a call whose increment left the stock negative has made its second
\* write, the revert, and has been answered.
C25_Witness ==
  /\ lastCall.op = "UpdateStock" /\ lastCall.code = "FailedPrecondition"
  /\ ~lastCall.storeErr
  /\ \E n \in DOMAIN ledger : ledger[n].calls > 0 /\ ledger[n].rejected

\* C26: an UpdateStock call answered OK returns the product with the stock as its
\* own increment left it, the stock before that store call plus the change asked,
\* which is not negative; PUT /products/:id/stock of the gateway passes the
\* quantity of the body as that change and answers 200 with that stock_quantity.
C26_StockReturned ==
  [][(lastCall'.op = "UpdateStock" /\ lastCall'.code = "OK") =>
       \E c \in Callers :
         LET id == arg[c].id IN
         /\ pc[c] = "stock_update" /\ pc'[c] = "idle"
         /\ lastCall'.delta = lastCall'.ask.quantity
         /\ lastCall'.ret.stock_quantity = products[id].stock_quantity + lastCall'.ask.quantity
         /\ lastCall'.ret.stock_quantity = products'[id].stock_quantity
         /\ lastCall'.ret.stock_quantity >= 0
         /\ UpdateStockJSON(lastCall'.ret)
              = [id |-> Hex(id), name |-> products[id].name,
                 stock_quantity |-> products[id].stock_quantity + lastCall'.ask.quantity]
         /\ GatewayStatus(lastCall'.op, lastCall'.code) = 200]_vars

\* C26's case: a PUT with quantity 90 has been answered with the stock raised by
\* 90, while another call on the product was in flight.
C26_Witness ==
  /\ lastCall.op = "UpdateStock" /\ lastCall.code = "OK" /\ lastCall.ask.quantity = 90
  /\ lastCall.ret.stock_quantity >= 90
  /\ ~lastCall.solo

\* C27: the updated_at of a product or an order never decreases and is never
\* earlier than its created_at, however UpdateProduct, UpdateStock and UpdateOrder
\* calls interleave.
C27_UpdatedAtMonotonic ==
  /\ [](/\ \A n \in DOMAIN products : products[n].updated_at >= products[n].created_at
        /\ \A n \in DOMAIN orders : orders[n].updated_at >= orders[n].created_at)
  /\ [][/\ \A n \in DOMAIN products : products'[n].updated_at >= products[n].updated_at
        /\ \A n \in DOMAIN orders : orders'[n].updated_at >= orders[n].updated_at]_vars

\* C28: an operation answered InvalidArgument or NotFound has written nothing.
\* InvalidArgument is answered before any store call; NotFound by the first store
\* call of the handler, which leaves both collections as they were; a handler
\* reaches its store call with the id parsed and without having written; and
\* UpdateProduct, UpdateStock and UpdateOrder on an id under which nothing is
\* stored insert nothing, change nothing and, the store call served, answer NotFound.
C28_ErrorsWriteNothing ==
  [][/\ (lastCall'.code \in {"InvalidArgument", "NotFound"}) =>
          /\ products' = products /\ orders' = orders
          /\ \A c \in Callers :
               pc'[c] # pc[c] =>
                 (pc[c] \in {"product_update", "stock_update", "order_update"} /\ pc'[c] = "idle")
     /\ (lastCall'.code = "InvalidArgument") => (pc' = pc /\ faults' = faults)
     /\ \A c \in Callers :
          /\ (pc[c] = "idle" /\ pc'[c] # "idle") =>
               (products' = products /\ orders' = orders /\ arg'[c].id >= 1)
          /\ (pc[c] \in {"product_update", "stock_update"} /\ pc'[c] # pc[c]
                /\ arg[c].id \notin DOMAIN products) =>
               /\ products' = products
               /\ faults' = faults => lastCall'.code = "NotFound"
          /\ (pc[c] = "order_update" /\ pc'[c] # pc[c] /\ arg[c].id \notin DOMAIN orders) =>
               /\ orders' = orders
               /\ (faults' = faults /\ lastCall'.code # "Unavailable") =>
                    lastCall'.code = "NotFound"]_vars

\* C28's case: with a product and an order stored, an update on an id under which
\* nothing is stored has just been answered NotFound.
C28_Witness ==
  /\ lastCall.op \in {"UpdateProduct", "UpdateStock", "UpdateOrder"}
  /\ lastCall.code = "NotFound"
  /\ Len(products) > 0 /\ Len(orders) > 0
====
